---- MODULE Spec2Model ----
(***************************************************************************)
(* The loop object (vm/loop_object.rs) and the macro object                *)
(* (vm/macro_object.rs) of minijinja, as two state machines that share     *)
(* one module.  LoopSpec drives a Loop through the operations of its       *)
(* Object / MapObject implementations; MacroSpec drives <Macro as          *)
(* Object>::call.                                                          *)
(*                                                                         *)
(* Integers are scaled: usize and u64 are both Bits wide (a 64-bit target, *)
(* where `idx as u64` keeps the value and `!0` is the same number in both  *)
(* types).                                                                 *)
(***************************************************************************)
EXTENDS Integers, Sequences, FiniteSets, TLC

\* ------------------------------------------------------------------ bounds
Bits == 3
MaxLen == 3
MaxDepth == 1
MaxTuple == 2
MaxCycle == 3

\* ------------------------------------------------------------------ values
USIZE_MAX == (2 ^ Bits) - 1

Undefined == [t |-> "undefined", v |-> 0]
IntV(n) == [t |-> "int", v |-> n]
BoolV(b) == [t |-> "bool", v |-> b]
StrV(s) == [t |-> "str", v |-> s]

\* Option<T>
NoneOpt == [some |-> FALSE, val |-> <<>>]
SomeOpt(x) == [some |-> TRUE, val |-> x]
NoneVal == [some |-> FALSE, val |-> Undefined]
NoneStr == [some |-> FALSE, val |-> ""]
EmptyMap == [k \in {} |-> Undefined]
NoKwargs == [some |-> FALSE, val |-> EmptyMap]

\* Result<Value, Error>, Option<Value> and a panic, in one shape
\* (detail is the message, arg the name formatted into it)
Ok(v) == [kind |-> "Ok", err |-> "", detail |-> "", arg |-> "", val |-> v]
Err(k, d, a) == [kind |-> "Err", err |-> k, detail |-> d, arg |-> a, val |-> Undefined]
SomeV(v) == [kind |-> "Some", err |-> "", detail |-> "", arg |-> "", val |-> v]
NoneV == [kind |-> "None", err |-> "", detail |-> "", arg |-> "", val |-> Undefined]
Panic(d) == [kind |-> "Panic", err |-> "", detail |-> d, arg |-> "", val |-> Undefined]
\* a + or - whose result does not fit: a panic where overflow is checked, the
\* wrapped value where it is not
Overflow == [kind |-> "Overflow", err |-> "", detail |-> "", arg |-> "", val |-> Undefined]
NoRet == [kind |-> "NoRet", err |-> "", detail |-> "", arg |-> "", val |-> Undefined]

\* a macro call that has not happened: nothing passed, nothing done
NoTrace ==
    [args |-> <<>>, kwargs |-> NoKwargs, looked_up |-> FALSE, entered |-> 0,
     arg_values |-> <<>>, caller |-> NoneVal, rv |-> ""]
NoCall ==
    [state |-> [id |-> 0, auto_escape |-> "None"], method |-> NoneStr,
     args |-> <<>>, called |-> FALSE]

\* usize / u64 arithmetic
wrapping_sub(a, b) == (a - b) % (2 ^ Bits)

saturating_sub(a, b) == IF a >= b THEN a - b ELSE 0

wrapping_add(a, b) == (a + b) % (2 ^ Bits)
fits(v) == 0 <= v /\ v <= 2 ^ Bits - 1
checked(v) == IF fits(v) THEN SomeV(IntV(v)) ELSE Overflow
checked_bool(v, b) == IF fits(v) THEN SomeV(BoolV(b)) ELSE Overflow

\* the argument lists a template hands to a loop method
LoopVals == {IntV(1), IntV(2)}
Tuples(S, n) == UNION {[1..k -> S] : k \in 0..n}
LoopArgs == Tuples(LoopVals, MaxTuple)
CycleArgs == Tuples(LoopVals, MaxCycle)

\* the keys a template reads on the loop object
static_fields ==
    <<"index0", "index", "length", "revindex", "revindex0", "first", "last",
      "depth", "depth0">>
FieldNames == {static_fields[i] : i \in 1..Len(static_fields)}
LoopKeys == {StrV(n) : n \in FieldNames \cup {"other"}} \cup {IntV(0)}
MethodNames == {"changed", "cycle", "index", "other"}

\* Value::as_str
as_str(key) == IF key.t = "str" THEN SomeOpt(key.v) ELSE [some |-> FALSE, val |-> ""]

VARIABLES
    len,                 \* LoopStatus.len
    idx,                 \* LoopStatus.idx
    depth,               \* LoopStatus.depth
    last_changed_value,  \* LoopStatus.last_changed_value
    len_known,           \* whether the iterated sequence had a known count
    last_args,           \* arguments of the most recent changed call, and the idx then
    op,                  \* the operation that ran last (moved: idx differs from
                         \* the idx of the changed call before it)
    ret,                 \* what it returned
    macro,               \* the Macro object
    mcall,               \* the inputs of the macro call that ran last
    mret,                \* what it returned
    mtrace,              \* what that call did on the way
    lock,                \* holder of the last_changed_value mutex (0: free)
    tpc,                 \* where each thread is in call_method
    targs,               \* each thread's args
    tchanged,            \* each thread's local `changed`
    tres,                \* what each thread's call returned
    stored0,             \* last_changed_value before the threads started
    overlap,             \* a call began while another was in progress
    rlimit,              \* the environment's recursion limit
    rstack,              \* the macro invocations in progress, outermost first
    rfailed,             \* an error is on its way up
    rret                 \* what the macro call that returned last returned

loopvars == <<len, idx, depth, last_changed_value, len_known, last_args, op, ret>>
macrovars == <<macro, mcall, mret, mtrace>>
concvars == <<lock, tpc, targs, tchanged, tres, stored0, overlap>>
recvars == <<rlimit, rstack, rfailed, rret>>
vars == <<loopvars, macrovars, concvars, recvars>>

\* ---------------------------------------------------------------- the loop
\* no changed call yet
NoArgs == [some |-> FALSE, val |-> <<>>, at |-> 0]
NoOp == [kind |-> "idle", name |-> "", args |-> <<>>, key |-> Undefined, moved |-> FALSE]

\* a new loop
NewLoop(l, known, d) ==
    /\ len = l
    /\ len_known = known
    /\ depth = d
    /\ idx = USIZE_MAX
    /\ last_changed_value = NoneOpt
    /\ last_args = NoArgs
    /\ op = NoOp
    /\ ret = NoRet

\* a new macro
NewMacro(m) ==
    /\ macro = m
    /\ mcall = NoCall
    /\ mret = NoRet
    /\ mtrace = NoTrace

\* no thread is in call_method
NThreads == 2
Threads == 1..NThreads
NoThreads(stored) ==
    /\ lock = 0
    /\ tpc = [t \in Threads |-> "idle"]
    /\ targs = [t \in Threads |-> <<>>]
    /\ tchanged = [t \in Threads |-> FALSE]
    /\ tres = [t \in Threads |-> NoRet]
    /\ stored0 = stored
    /\ overlap = FALSE

\* no macro invocation is in progress
NoRecursion(limit) ==
    /\ rlimit = limit
    /\ rstack = <<>>
    /\ rfailed = FALSE
    /\ rret = NoRet

\* a loop alone: any loop the evaluator can make, and a macro nobody calls
LoopInit ==
    /\ \E l \in 0..MaxLen, known \in BOOLEAN, d \in 0..MaxDepth : NewLoop(l, known, d)
    /\ NewMacro([name |-> "m", arg_spec |-> <<>>, macro_ref_id |-> 0, state_id |-> 1,
                 closure |-> Undefined, caller_reference |-> FALSE])
    /\ NoThreads(NoneOpt)
    /\ NoRecursion(1)

\* the evaluator's once-per-iteration idx.fetch_add(1)
Advance ==
    /\ op = NoOp
    /\ idx = USIZE_MAX \/ idx < (IF len_known THEN len ELSE MaxLen)
    /\ idx' = wrapping_add(idx, 1)
    /\ UNCHANGED <<op, ret>>
    /\ UNCHANGED <<len, depth, last_changed_value, len_known, last_args>>
    /\ UNCHANGED <<macrovars, concvars, recvars>>

\* Loop::get_field, the never-iterated test
never_iterated_zero(i) == i = 0

never_iterated(i) == i = USIZE_MAX

\* Loop::get_field, the match on the attribute name
attribute_rev(i, l, d, name) ==
    CASE name = "index0" -> SomeV(IntV(i))
      [] name = "index" -> checked(i + 1)
      [] name = "length" -> SomeV(IntV(l))
      [] name = "revindex" -> SomeV(IntV(saturating_sub(l, i)))
      [] name = "revindex0" -> SomeV(IntV(saturating_sub(l, i)))
      [] name = "first" -> SomeV(BoolV(i = 0))
      [] name = "last" -> IF l = 0 THEN SomeV(BoolV(TRUE))
                          ELSE checked_bool(l - 1, i = l - 1)
      [] name = "depth" -> checked(d + 1)
      [] name = "depth0" -> SomeV(IntV(d))
      [] OTHER -> NoneV

attribute(i, l, d, name) ==
    CASE name = "index0" -> SomeV(IntV(i))
      [] name = "index" -> checked(i + 1)
      [] name = "length" -> SomeV(IntV(l))
      [] name = "revindex" -> SomeV(IntV(saturating_sub(l, i)))
      [] name = "revindex0" -> SomeV(IntV(saturating_sub(saturating_sub(l, i), 1)))
      [] name = "first" -> SomeV(BoolV(i = 0))
      [] name = "last" -> IF l = 0 THEN SomeV(BoolV(TRUE))
                          ELSE checked_bool(l - 1, i = l - 1)
      [] name = "depth" -> checked(d + 1)
      [] name = "depth0" -> SomeV(IntV(d))
      [] OTHER -> NoneV

\* Loop::get_field
get_field(i, l, d, key) ==
    LET name == as_str(key) IN
    IF ~name.some THEN NoneV
    ELSE IF never_iterated(i) THEN SomeV(Undefined)
    ELSE attribute(i, l, d, name.val)

\* <Loop as MapObject>::get_field
GetField(key) ==
    /\ op = NoOp
    /\ op' = [kind |-> "get_field", name |-> "", args |-> <<>>, key |-> key,
              moved |-> FALSE]
    /\ ret' = get_field(idx, len, depth, key)
    /\ UNCHANGED <<len, idx, depth, last_changed_value, len_known, last_args>>
    /\ UNCHANGED <<macrovars, concvars, recvars>>

\* <Loop as Object>::call
call_result_ok(args) == Ok(Undefined)

call_result(args) ==
    Err("InvalidOperation", "loop cannot be called if reassigned to different variable", "")

Call(args) ==
    /\ op = NoOp
    /\ op' = [kind |-> "call", name |-> "", args |-> args, key |-> Undefined,
              moved |-> FALSE]
    /\ ret' = call_result(args)
    /\ UNCHANGED <<len, idx, depth, last_changed_value, len_known, last_args>>
    /\ UNCHANGED <<macrovars, concvars, recvars>>

\* <Loop as Object>::call_method, the changed arm
changed_differs(stored, value) == stored # SomeOpt(value)

changed_store_once(stored, value) ==
    IF ~stored.some THEN SomeOpt(value) ELSE stored

changed_store(stored, value) ==
    IF changed_differs(stored, value) THEN SomeOpt(value) ELSE stored

\* <Loop as Object>::call_method, the cycle arm
cycle_next(i, args) ==
    IF Len(args) = 0
    THEN Panic("attempt to calculate the remainder with a divisor of zero")
    ELSE LET k == (i + 1) % Len(args) IN
         IF k < Len(args) THEN Ok(args[k + 1]) ELSE Ok(Undefined)

cycle(i, args) ==
    IF Len(args) = 0
    THEN Panic("attempt to calculate the remainder with a divisor of zero")
    ELSE LET k == i % Len(args) IN
         IF k < Len(args) THEN Ok(args[k + 1]) ELSE Ok(Undefined)

\* <Loop as Object>::call_method
call_method_result_lenient(name, args) ==
    IF name = "changed" THEN Ok(BoolV(changed_differs(last_changed_value, args)))
    ELSE IF name = "cycle" THEN cycle(idx, args)
    ELSE Ok(Undefined)

call_method_result(name, args) ==
    IF name = "changed" THEN Ok(BoolV(changed_differs(last_changed_value, args)))
    ELSE IF name = "cycle" THEN cycle(idx, args)
    ELSE Err("UnknownMethod", "loop object has no method named {name}", name)

CallMethod_cycle_advances(name, args) ==
    /\ op = NoOp
    /\ op' = [kind |-> "call_method", name |-> name, args |-> args, key |-> Undefined,
              moved |-> name = "changed" /\ last_args.some /\ last_args.at # idx]
    /\ ret' = call_method_result(name, args)
    /\ last_changed_value' =
         IF name = "changed" THEN changed_store(last_changed_value, args)
         ELSE last_changed_value
    /\ last_args' =
         IF name = "changed" THEN [some |-> TRUE, val |-> args, at |-> idx]
         ELSE last_args
    /\ idx' = IF name = "cycle" THEN wrapping_add(idx, 1) ELSE idx
    /\ UNCHANGED <<len, depth, len_known>>
    /\ UNCHANGED <<macrovars, concvars, recvars>>

CallMethod(name, args) ==
    /\ op = NoOp
    /\ op' = [kind |-> "call_method", name |-> name, args |-> args, key |-> Undefined,
              moved |-> name = "changed" /\ last_args.some /\ last_args.at # idx]
    /\ ret' = call_method_result(name, args)
    /\ last_changed_value' =
         IF name = "changed" THEN changed_store(last_changed_value, args)
         ELSE last_changed_value
    /\ last_args' =
         IF name = "changed" THEN [some |-> TRUE, val |-> args, at |-> idx]
         ELSE last_args
    /\ UNCHANGED <<len, idx, depth, len_known>>
    /\ UNCHANGED <<macrovars, concvars, recvars>>

\* the evaluator takes the result; the loop keeps its fields
Return ==
    /\ op # NoOp
    /\ op' = NoOp
    /\ ret' = NoRet
    /\ UNCHANGED <<len, idx, depth, last_changed_value, len_known, last_args>>
    /\ UNCHANGED <<macrovars, concvars, recvars>>

LoopNext ==
    \/ Advance
    \/ \E key \in LoopKeys : GetField(key)
    \/ \E args \in LoopArgs : Call(args)
    \/ \E name \in MethodNames :
          \E args \in (IF name = "cycle" THEN CycleArgs ELSE LoopArgs) :
             CallMethod(name, args)
    \/ Return

\* --------------------------------------------------------------- the macro
MaxParams == 2
MaxArgs == 3
MaxLimit == 3

ParamNames == {"a", "b"}

\* the keys a keyword bundle can hold, in the order its map yields them
KwKeys == <<"a", "b", "caller", "z">>
KwKeySet == {KwKeys[i] : i \in 1..Len(KwKeys)}
KwVal(k) ==
    CASE k = "a" -> IntV(5)
      [] k = "b" -> IntV(6)
      [] k = "caller" -> IntV(7)
      [] OTHER -> IntV(8)

SafeStrV(s) == [t |-> "safe_str", v |-> s]
ObjV == [t |-> "object", v |-> 0]
KwargsV(S) == [t |-> "kwargs", v |-> [k \in S |-> KwVal(k)]]

\* the argument lists a template hands to a macro
InnerVals == {IntV(1), IntV(2), ObjV, KwargsV({"a"})}
LastVals == {IntV(1), IntV(2), ObjV} \cup {KwargsV(S) : S \in SUBSET KwKeySet}
MacroArgs ==
    {<<>>} \cup {Append(h, l) : h \in Tuples(InnerVals, MaxArgs - 1), l \in LastVals}

Macros ==
    [name : {"m"}, arg_spec : Tuples(ParamNames, MaxParams), macro_ref_id : {0},
     state_id : {1, 2}, closure : {Undefined}, caller_reference : BOOLEAN]

\* the calling State: its id and its auto-escape mode
CallStates == [id : {1, 2}, auto_escape : {"None", "Html", "Json"}]
Methods == {NoneStr, SomeOpt("render"), SomeOpt("name")}

\* what Vm::eval_macro can do: write text to the buffer and return Ok or Err
EvalOutcomes ==
    {[ok |-> TRUE, text |-> ""], [ok |-> TRUE, text |-> "<b>"], [ok |-> FALSE, text |-> "<"]}

\* Object::as_kwargs on the final argument
as_kwargs(obj) == IF obj.t = "kwargs" THEN SomeOpt(obj.v) ELSE NoKwargs

\* Kwargs::get(name).ok()
kwargs_get(kwargs, name) ==
    IF kwargs.some /\ name \in DOMAIN kwargs.val
    THEN SomeOpt(kwargs.val[name]) ELSE NoneVal

\* args.get(idx)
args_get(args, i) == IF i <= Len(args) THEN SomeOpt(args[i]) ELSE NoneVal

\* <Macro as Object>::call, the method-name check
method_given_never(method) == FALSE

method_given(method) == method.some

\* <Macro as Object>::call, the render-pass identity check
state_differs_never(state, m) == FALSE

state_differs(state, m) == state.id # m.state_id

\* <Macro as Object>::call, the split into positional arguments and kwargs
split_kwargs_any_object(args) ==
    IF Len(args) > 0 /\ args[Len(args)].t \in {"object", "kwargs"}
    THEN [args |-> SubSeq(args, 1, Len(args) - 1),
          kwargs |-> SomeOpt(IF args[Len(args)].t = "kwargs"
                             THEN args[Len(args)].v ELSE EmptyMap)]
    ELSE [args |-> args, kwargs |-> NoKwargs]

split_kwargs(args) ==
    IF Len(args) > 0 /\ args[Len(args)].t \in {"object", "kwargs"}
    THEN LET kw == as_kwargs(args[Len(args)]) IN
         IF kw.some
         THEN [args |-> SubSeq(args, 1, Len(args) - 1), kwargs |-> kw]
         ELSE [args |-> args, kwargs |-> NoKwargs]
    ELSE [args |-> args, kwargs |-> NoKwargs]

\* <Macro as Object>::call, the count of positional arguments
too_many_lenient(args, arg_spec) == Len(args) > Len(arg_spec) + 1

too_many(args, arg_spec) == Len(args) > Len(arg_spec)

\* <Macro as Object>::call, the (Some(_), Some(_)) arm
is_duplicate_never(arg, kwarg) == FALSE

is_duplicate(arg, kwarg) == arg.some /\ kwarg.some

\* <Macro as Object>::call, the value pushed for one parameter
arg_value_positional_only(arg, kwarg) ==
    IF arg.some THEN arg.val ELSE Undefined

arg_value(arg, kwarg) ==
    IF arg.some THEN arg.val
    ELSE IF kwarg.some THEN kwarg.val
    ELSE Undefined

\* <Macro as Object>::call, the loop over arg_spec
RECURSIVE bind(_, _, _, _, _, _)
bind(arg_spec, args, kwargs, i, kwargs_used, arg_values) ==
    IF i > Len(arg_spec)
    THEN [err |-> FALSE, name |-> "", kwargs_used |-> kwargs_used,
          arg_values |-> arg_values]
    ELSE LET name == arg_spec[i]
             kwarg == kwargs_get(kwargs, name)
             arg == args_get(args, i)
         IN IF is_duplicate(arg, kwarg)
            THEN [err |-> TRUE, name |-> name, kwargs_used |-> kwargs_used,
                  arg_values |-> arg_values]
            ELSE bind(arg_spec, args, kwargs, i + 1,
                      IF ~arg.some /\ kwarg.some
                      THEN kwargs_used \cup {name} ELSE kwargs_used,
                      Append(arg_values, arg_value(arg, kwarg)))

\* <Macro as Object>::call, the caller slot
caller_value_undefined(m, kwargs) ==
    IF m.caller_reference THEN SomeOpt(Undefined) ELSE NoneVal

caller_value(m, kwargs) ==
    IF m.caller_reference
    THEN LET c == kwargs_get(kwargs, "caller") IN
         SomeOpt(IF c.some THEN c.val ELSE Undefined)
    ELSE NoneVal

caller_used_always(m, kwargs_used) == kwargs_used \cup {"caller"}

caller_used(m, kwargs_used) ==
    IF m.caller_reference THEN kwargs_used \cup {"caller"} ELSE kwargs_used

\* <Macro as Object>::call, the scan for an unknown keyword
unknown_key_none(kwargs, kwargs_used, i) == NoneStr

RECURSIVE unknown_key(_, _, _)
unknown_key(kwargs, kwargs_used, i) ==
    IF ~kwargs.some \/ i > Len(KwKeys) THEN NoneStr
    ELSE IF KwKeys[i] \in DOMAIN kwargs.val /\ KwKeys[i] \notin kwargs_used
         THEN SomeOpt(KwKeys[i])
         ELSE unknown_key(kwargs, kwargs_used, i + 1)

\* <Macro as Object>::call, the wrapping of the rendered text
wrap_output_html_only(state, rv) ==
    IF state.auto_escape = "Html" THEN SafeStrV(rv) ELSE StrV(rv)

wrap_output(state, rv) ==
    IF state.auto_escape # "None" THEN SafeStrV(rv) ELSE StrV(rv)

\* <Macro as Object>::call, from eval_macro's result to the returned value
finish_ignoring_error(state, out) == Ok(wrap_output(state, out.text))

finish(state, out) ==
    IF ~out.ok THEN Err("EvalError", "", "")
    ELSE Ok(wrap_output(state, out.text))

\* <Macro as Object>::call, after the method-name and identity checks
call_checked(m, state, args, out) ==
    LET sp == split_kwargs(args)
        t1 == [NoTrace EXCEPT !.args = sp.args, !.kwargs = sp.kwargs]
    IN
    IF too_many(sp.args, m.arg_spec)
    THEN [ret |-> Err("TooManyArguments", "", ""), trace |-> t1]
    ELSE
    LET b == bind(m.arg_spec, sp.args, sp.kwargs, 1, {}, <<>>) IN
    IF b.err
    THEN [ret |-> Err("TooManyArguments", "duplicate argument {name}", b.name),
          trace |-> t1]
    ELSE
    LET caller == caller_value(m, sp.kwargs)
        kwargs_used == caller_used(m, b.kwargs_used)
        unknown == unknown_key(sp.kwargs, kwargs_used, 1)
    IN
    IF unknown.some
    THEN [ret |-> Err("TooManyArguments", "unknown keyword argument {key}",
                      unknown.val),
          trace |-> t1]
    ELSE
    LET t2 == [t1 EXCEPT !.looked_up = TRUE, !.entered = 1,
                         !.arg_values = b.arg_values, !.caller = caller,
                         !.rv = out.text]
    IN [ret |-> finish(state, out), trace |-> t2]

\* <Macro as Object>::call
macro_call_state_first(m, state, method, args, out) ==
    IF state_differs(state, m)
    THEN [ret |-> Err("InvalidOperation",
                      "cannot call this macro. template state went away.", ""),
          trace |-> NoTrace]
    ELSE IF method_given(method)
    THEN [ret |-> Err("InvalidOperation", "cannot call methods on macro", ""),
          trace |-> NoTrace]
    ELSE call_checked(m, state, args, out)

macro_call(m, state, method, args, out) ==
    IF method_given(method)
    THEN [ret |-> Err("InvalidOperation", "cannot call methods on macro", ""),
          trace |-> NoTrace]
    ELSE IF state_differs(state, m)
    THEN [ret |-> Err("InvalidOperation",
                      "cannot call this macro. template state went away.", ""),
          trace |-> NoTrace]
    ELSE call_checked(m, state, args, out)

\* the evaluator calls the macro value: any state, method name and arguments
MacroCall ==
    /\ ~mcall.called
    /\ \E state \in CallStates, method \in Methods, args \in MacroArgs,
          out \in EvalOutcomes :
          LET r == macro_call(macro, state, method, args, out) IN
          /\ mcall' = [state |-> state, method |-> method, args |-> args,
                       called |-> TRUE]
          /\ mret' = r.ret
          /\ mtrace' = r.trace
    /\ UNCHANGED macro
    /\ UNCHANGED <<loopvars, concvars, recvars>>

\* the evaluator takes the result; the macro is as it was before the call
MacroReturn ==
    /\ mcall.called
    /\ mcall' = NoCall
    /\ mret' = NoRet
    /\ mtrace' = NoTrace
    /\ UNCHANGED macro
    /\ UNCHANGED <<loopvars, concvars, recvars>>

\* a macro alone: any macro a template can define, and a loop nobody uses
MacroInit ==
    /\ \E m \in Macros : NewMacro(m)
    /\ NewLoop(0, TRUE, 0)
    /\ NoThreads(NoneOpt)
    /\ NoRecursion(1)

MacroNext ==
    \/ MacroCall
    \/ MacroReturn

\* ------------------------------------------- threads calling loop.changed
\* the tuples the threads pass, and what the loop may hold before they start
ConcArgs == Tuples(LoopVals, 1)
ConcStored == {NoneOpt} \cup {SomeOpt(a) : a \in ConcArgs}

\* Mutex::lock returns only when no thread holds the mutex
can_lock_always(holder) == TRUE

can_lock(holder) == holder = 0

\* a thread enters call_method with the name changed
Begin(t, args) ==
    /\ tpc[t] = "idle"
    /\ tpc' = [tpc EXCEPT ![t] = "lock"]
    /\ targs' = [targs EXCEPT ![t] = args]
    /\ overlap' = (overlap \/ \E u \in Threads : tpc[u] \notin {"idle", "done"})
    /\ UNCHANGED <<lock, tchanged, tres, stored0>>
    /\ UNCHANGED <<loopvars, macrovars, recvars>>

\* let mut last_changed_value = self.last_changed_value.lock().unwrap()
Lock(t) ==
    /\ tpc[t] = "lock"
    /\ can_lock(lock)
    /\ lock' = t
    /\ tpc' = [tpc EXCEPT ![t] = "compare"]
    /\ UNCHANGED <<targs, tchanged, tres, stored0, overlap>>
    /\ UNCHANGED <<loopvars, macrovars, recvars>>

\* let changed = last_changed_value.as_ref() != Some(&value)
Compare(t) ==
    /\ tpc[t] = "compare"
    /\ tchanged' = [tchanged EXCEPT ![t] = changed_differs(last_changed_value, targs[t])]
    /\ tpc' = [tpc EXCEPT ![t] = "store"]
    /\ UNCHANGED <<lock, targs, tres, stored0, overlap>>
    /\ UNCHANGED <<loopvars, macrovars, recvars>>

\* if changed { *last_changed_value = Some(value); Ok(true) } else { Ok(false) }
Store(t) ==
    /\ tpc[t] = "store"
    /\ last_changed_value' =
         IF tchanged[t] THEN SomeOpt(targs[t]) ELSE last_changed_value
    /\ tres' = [tres EXCEPT ![t] = Ok(BoolV(tchanged[t]))]
    /\ tpc' = [tpc EXCEPT ![t] = "unlock"]
    /\ UNCHANGED <<lock, targs, tchanged, stored0, overlap>>
    /\ UNCHANGED <<len, idx, depth, len_known, last_args, op, ret>>
    /\ UNCHANGED <<macrovars, recvars>>

\* the guard goes out of scope when call_method returns
Unlock(t) ==
    /\ tpc[t] = "unlock"
    /\ lock' = 0
    /\ tpc' = [tpc EXCEPT ![t] = "done"]
    /\ UNCHANGED <<targs, tchanged, tres, stored0, overlap>>
    /\ UNCHANGED <<loopvars, macrovars, recvars>>

ThreadBegin == \E t \in Threads, args \in ConcArgs : Begin(t, args)
ThreadLock == \E t \in Threads : Lock(t)
ThreadCompare == \E t \in Threads : Compare(t)
ThreadStore == \E t \in Threads : Store(t)
ThreadUnlock == \E t \in Threads : Unlock(t)

\* a loop in its first iteration, shared by the threads
ConcInit ==
    /\ \E stored \in ConcStored :
          /\ len = MaxLen
          /\ len_known = TRUE
          /\ depth = 0
          /\ idx = 0
          /\ last_changed_value = stored
          /\ last_args = NoArgs
          /\ op = NoOp
          /\ ret = NoRet
          /\ NoThreads(stored)
    /\ NewMacro([name |-> "m", arg_spec |-> <<>>, macro_ref_id |-> 0, state_id |-> 1,
                 closure |-> Undefined, caller_reference |-> FALSE])
    /\ NoRecursion(1)

ConcNext ==
    \/ ThreadBegin
    \/ ThreadLock
    \/ ThreadCompare
    \/ ThreadStore
    \/ ThreadUnlock

\* ------------------------------------------------ nested macro invocations
\* the macro body's outcomes: it ran to its end, or its evaluation failed
EvalDone == {o \in EvalOutcomes : o.ok}
EvalFailed == CHOOSE o \in EvalOutcomes : ~o.ok

\* the states a body of this macro calls it from
NestedStates == {st \in CallStates : st.id = macro.state_id}

\* Vm::eval_macro refuses to go deeper than the environment's limit
too_deep(nested, limit) == nested >= limit

\* a body, or the template at the top, calls the macro: call passes its checks
\* and hands over to eval_macro, which starts the body or refuses
Invoke ==
    /\ ~rfailed
    /\ \E state \in NestedStates :
          IF too_deep(Len(rstack), rlimit)
          THEN /\ rfailed' = TRUE
               /\ rret' = macro_call(macro, state, NoneStr, <<>>, EvalFailed).ret
               /\ UNCHANGED rstack
          ELSE /\ rstack' = Append(rstack, state)
               /\ UNCHANGED <<rfailed, rret>>
    /\ UNCHANGED rlimit
    /\ UNCHANGED <<loopvars, macrovars, concvars>>

\* the innermost body runs to its end: eval_macro returns Ok and call its string
Finish ==
    /\ ~rfailed
    /\ rstack # <<>>
    /\ \E out \in EvalDone :
          rret' = macro_call(macro, rstack[Len(rstack)], NoneStr, <<>>, out).ret
    /\ rstack' = SubSeq(rstack, 1, Len(rstack) - 1)
    /\ UNCHANGED <<rlimit, rfailed>>
    /\ UNCHANGED <<loopvars, macrovars, concvars>>

\* the call a body made returned an error: the body's evaluation fails, and
\* ok!(vm.eval_macro(..)) returns the error from the enclosing call
Unwind ==
    /\ rfailed
    /\ rstack # <<>>
    /\ rret' = macro_call(macro, rstack[Len(rstack)], NoneStr, <<>>, EvalFailed).ret
    /\ rstack' = SubSeq(rstack, 1, Len(rstack) - 1)
    /\ UNCHANGED <<rlimit, rfailed>>
    /\ UNCHANGED <<loopvars, macrovars, concvars>>

\* a macro of a template rendered under some recursion limit
RecInit ==
    /\ \E m \in Macros : NewMacro(m)
    /\ NewLoop(0, TRUE, 0)
    /\ NoThreads(NoneOpt)
    /\ \E limit \in 1..MaxLimit : NoRecursion(limit)

RecNext ==
    \/ Invoke
    \/ Finish
    \/ Unwind

\* -------------------------------------------------------------- the systems
ConcSpec == ConcInit /\ [][ConcNext]_vars

\* an error return is taken at once: the thread that got it keeps running
RecSpec == RecInit /\ [][RecNext]_vars /\ WF_vars(Unwind)

LoopSpec == LoopInit /\ [][LoopNext]_vars

MacroSpec == MacroInit /\ [][MacroNext]_vars

\* ------------------------------------------------------ claims on the loop
IsGet(name) == op.kind = "get_field" /\ op.key = StrV(name)
IsMethod(name) == op.kind = "call_method" /\ op.name = name

\* C1: at every index i with 0 <= i < L of a loop of length L the attributes
\* read index0 = i, index = i+1, length = L, first = (i = 0),
\* last = (i = L-1), revindex = L-i, revindex0 = L-i-1, depth = nesting
\* level + 1 and depth0 = nesting level.
C1_Attributes ==
    (op.kind = "get_field" /\ idx < len) =>
        /\ IsGet("index0") => ret = SomeV(IntV(idx))
        /\ IsGet("index") => ret = SomeV(IntV(idx + 1))
        /\ IsGet("length") => ret = SomeV(IntV(len))
        /\ IsGet("first") => ret = SomeV(BoolV(idx = 0))
        /\ IsGet("last") => ret = SomeV(BoolV(idx = len - 1))
        /\ IsGet("revindex") => ret = SomeV(IntV(len - idx))
        /\ IsGet("revindex0") => ret = SomeV(IntV(len - idx - 1))
        /\ IsGet("depth") => ret = SomeV(IntV(depth + 1))
        /\ IsGet("depth0") => ret = SomeV(IntV(depth))

C1_Witness ==
    /\ IsGet("revindex0")
    /\ len = MaxLen
    /\ idx = 1
    /\ ret = SomeV(IntV(MaxLen - 2))

\* C2: a changed call returns true exactly if it is the first changed call
\* on the object or its arguments differ from those of the changed call just
\* before it, whatever the index did in between.
C2_Changed ==
    [][(op'.kind = "call_method" /\ op'.name = "changed") =>
          (/\ ret' \in {Ok(BoolV(TRUE)), Ok(BoolV(FALSE))}
           /\ (ret' = Ok(BoolV(TRUE))) <=>
                 (~last_args.some \/ op'.args # last_args.val))]_loopvars

C2_Witness ==
    /\ IsMethod("changed")
    /\ ret = Ok(BoolV(FALSE))
    /\ Len(op.args) = 2
    /\ op.moved
    /\ idx = 2

\* C3: cycle with n >= 1 arguments returns the argument at position
\* (index mod n).
C3_Cycle ==
    (IsMethod("cycle") /\ Len(op.args) >= 1) =>
        ret = Ok(op.args[(idx % Len(op.args)) + 1])

C3_Witness ==
    /\ IsMethod("cycle")
    /\ op.args = <<IntV(1), IntV(2), IntV(2)>>
    /\ idx = 3
    /\ ret = Ok(IntV(1))

\* C4: cycle without arguments completes normally and returns undefined.
C4_CycleNoArgs ==
    (IsMethod("cycle") /\ op.args = <<>>) => ret = Ok(Undefined)

\* C5: while the index is the never-iterated sentinel every attribute reads
\* as undefined.
C5_Sentinel ==
    (op.kind = "get_field" /\ idx = USIZE_MAX /\ op.key.t = "str"
        /\ op.key.v \in FieldNames) => ret = SomeV(Undefined)

C5_Witness ==
    /\ IsGet("index")
    /\ idx = USIZE_MAX
    /\ ret = SomeV(Undefined)

\* C6: on a loop over a sequence of unknown length the attributes length,
\* revindex, revindex0 and last read as undefined at every index.
C6_UnknownLength ==
    (~len_known /\ op.kind = "get_field"
        /\ op.key \in {StrV("length"), StrV("revindex"), StrV("revindex0"), StrV("last")})
    => ret = SomeV(Undefined)

\* C7: calling the loop value directly fails with InvalidOperation for every
\* argument list in every loop state and leaves the index and the stored
\* changed tuple as they were.
C7_DirectCall ==
    [][(op'.kind = "call") =>
          (/\ ret'.kind = "Err"
           /\ ret'.err = "InvalidOperation"
           /\ idx' = idx
           /\ last_changed_value' = last_changed_value)]_loopvars

C7_Witness ==
    /\ op.kind = "call"
    /\ Len(op.args) = 2
    /\ last_changed_value.some
    /\ idx = 1
    /\ ret.err = "InvalidOperation"

\* C8: a method whose name is neither changed nor cycle fails with
\* UnknownMethod and leaves the index and the stored changed tuple as they
\* were.
C8_UnknownMethod ==
    [][(op'.kind = "call_method" /\ op'.name \notin {"changed", "cycle"}) =>
          (/\ ret'.kind = "Err"
           /\ ret'.err = "UnknownMethod"
           /\ idx' = idx
           /\ last_changed_value' = last_changed_value)]_loopvars

C8_Witness ==
    /\ IsMethod("index")
    /\ Len(op.args) = 1
    /\ last_changed_value.some
    /\ idx = 0
    /\ ret.err = "UnknownMethod"

\* C23: no operation of the loop object (attribute read, direct call, cycle,
\* changed, unknown method) modifies the index, the length or the depth;
\* attribute reads and cycle leave the stored changed tuple as it was, and
\* so does a changed call that returns false; the index changes only in a
\* step where no operation of the object acts, and then by the driver's one.
C23_Frame ==
    [][/\ (op = NoOp /\ op' # NoOp) =>
            /\ idx' = idx
            /\ len' = len
            /\ depth' = depth
            /\ (op'.kind = "get_field" \/ (op'.kind = "call_method" /\ op'.name = "cycle"))
                  => last_changed_value' = last_changed_value
            /\ (op'.kind = "call_method" /\ op'.name = "changed"
                   /\ ret' = Ok(BoolV(FALSE)))
                  => last_changed_value' = last_changed_value
       /\ idx' # idx =>
            /\ op' = op
            /\ idx' = wrapping_add(idx, 1)
            /\ <<len', depth', last_changed_value'>> = <<len, depth, last_changed_value>>
      ]_loopvars

C23_Witness ==
    /\ IsMethod("cycle")
    /\ Len(op.args) = 2
    /\ last_changed_value = SomeOpt(<<IntV(1)>>)
    /\ idx = 2
    /\ len = MaxLen
    /\ ret = Ok(op.args[1])

C23_WitnessChanged ==
    /\ IsMethod("changed")
    /\ ret = Ok(BoolV(FALSE))
    /\ last_changed_value = SomeOpt(op.args)
    /\ op.args = <<IntV(2)>>
    /\ idx = 1

\* C22: no attribute computation overflows or underflows, for any length
\* and any index other than the sentinel: with the index at or beyond the
\* length revindex and revindex0 read 0, last reads true for a length of 0
\* (length - 1 is not computed), every number read fits its width, and at
\* the sentinel index is not computed at all.
C22_NoOverflow ==
    op.kind = "get_field" =>
        /\ ret.kind # "Overflow"
        /\ (ret.kind = "Some" /\ ret.val.t = "int") => ret.val.v \in 0..USIZE_MAX
        /\ (idx # USIZE_MAX /\ idx >= len) =>
              /\ IsGet("revindex") => ret = SomeV(IntV(0))
              /\ IsGet("revindex0") => ret = SomeV(IntV(0))
        /\ (idx # USIZE_MAX /\ len = 0 /\ IsGet("last")) => ret = SomeV(BoolV(TRUE))
        /\ (idx = USIZE_MAX /\ IsGet("index")) => ret = SomeV(Undefined)

C22_Witness ==
    /\ IsGet("revindex")
    /\ len = 1
    /\ idx = MaxLen
    /\ ret = SomeV(IntV(0))

C22_WitnessLast ==
    /\ IsGet("last")
    /\ len = 0
    /\ idx = 0
    /\ ret = SomeV(BoolV(TRUE))

\* ----------------------------------------------------- claims on the macro
\* the positional arguments and the keyword bundle of the call that ran last
HasBundle == Len(mcall.args) > 0 /\ mcall.args[Len(mcall.args)].t = "kwargs"
Positional ==
    IF HasBundle THEN SubSeq(mcall.args, 1, Len(mcall.args) - 1) ELSE mcall.args
Keywords == IF HasBundle THEN mcall.args[Len(mcall.args)].v ELSE EmptyMap

\* C9: a macro invoked from a state whose id differs from the captured
\* state_id fails with InvalidOperation for every argument list, and neither
\* looks up the macro body nor enters the evaluator.
C9_StaleState ==
    (mcall.called /\ mcall.state.id # macro.state_id) =>
        /\ mret.kind = "Err"
        /\ mret.err = "InvalidOperation"
        /\ ~mtrace.looked_up
        /\ mtrace.entered = 0

C9_Witness ==
    /\ mcall.called
    /\ ~mcall.method.some
    /\ mcall.state.id # macro.state_id
    /\ Len(mcall.args) = 2
    /\ Len(macro.arg_spec) = 2
    /\ mret.detail = "cannot call this macro. template state went away."

\* C10: in a successful call the evaluator gets one value per declared
\* parameter, in declaration order: the i-th positional argument if there is
\* one, otherwise the keyword value of that name if there is one, otherwise
\* undefined.
C10_Binding ==
    (mcall.called /\ mret.kind = "Ok") =>
        /\ mtrace.entered = 1
        /\ Len(mtrace.arg_values) = Len(macro.arg_spec)
        /\ \A i \in 1..Len(macro.arg_spec) :
              mtrace.arg_values[i] =
                 IF i <= Len(Positional) THEN Positional[i]
                 ELSE IF macro.arg_spec[i] \in DOMAIN Keywords
                      THEN Keywords[macro.arg_spec[i]]
                      ELSE Undefined

C10_Witness ==
    /\ mcall.called
    /\ mret.kind = "Ok"
    /\ macro.arg_spec = <<"a", "b">>
    /\ mcall.args = <<IntV(1), KwargsV({"b"})>>
    /\ mtrace.arg_values = <<IntV(1), IntV(6)>>

C10_WitnessDefault ==
    /\ mcall.called
    /\ mret.kind = "Ok"
    /\ macro.arg_spec = <<"a", "b">>
    /\ mcall.args = <<IntV(1)>>
    /\ mtrace.arg_values = <<IntV(1), Undefined>>

\* the call that ran last got past the method-name and identity checks
Reached == mcall.called /\ ~mcall.method.some /\ mcall.state.id = macro.state_id

\* the parameters that got both a positional and a keyword value
Dups ==
    {i \in 1..Len(macro.arg_spec) :
        i <= Len(Positional) /\ macro.arg_spec[i] \in DOMAIN Keywords}
Leftmost(S) == CHOOSE i \in S : \A j \in S : i <= j

\* the keyword keys that neither a parameter without a positional value nor
\* the caller slot takes
Consumed ==
    {macro.arg_spec[i] : i \in (Len(Positional) + 1)..Len(macro.arg_spec)}
        \cup (IF macro.caller_reference THEN {"caller"} ELSE {})
Unconsumed == (DOMAIN Keywords) \ Consumed

\* C11: a call that gives a declared parameter both a positional and a
\* keyword value fails with TooManyArguments, and the message names that
\* parameter (the leftmost one when there are several).
C11_Duplicate ==
    (Reached /\ Len(Positional) <= Len(macro.arg_spec) /\ Dups # {}) =>
        /\ mret.kind = "Err"
        /\ mret.err = "TooManyArguments"
        /\ mret.detail = "duplicate argument {name}"
        /\ mret.arg = macro.arg_spec[Leftmost(Dups)]
        /\ mtrace.entered = 0

C11_Witness ==
    /\ Reached
    /\ macro.arg_spec = <<"a", "b">>
    /\ mcall.args = <<IntV(1), KwargsV({"a"})>>
    /\ mret.err = "TooManyArguments"
    /\ mret.arg = "a"

\* C12: a call whose keyword bundle holds a key that neither parameter
\* binding nor the caller slot consumes fails with TooManyArguments, and the
\* message names such a key.
C12_UnknownKeyword ==
    (Reached /\ Len(Positional) <= Len(macro.arg_spec) /\ Dups = {}
        /\ Unconsumed # {}) =>
        /\ mret.kind = "Err"
        /\ mret.err = "TooManyArguments"
        /\ mret.detail = "unknown keyword argument {key}"
        /\ mret.arg \in Unconsumed
        /\ mtrace.entered = 0

C12_Witness ==
    /\ Reached
    /\ macro.arg_spec = <<"a", "b">>
    /\ mcall.args = <<IntV(1), KwargsV({"b", "z"})>>
    /\ mret.err = "TooManyArguments"
    /\ mret.arg = "z"

C12_WitnessCaller ==
    /\ Reached
    /\ ~macro.caller_reference
    /\ mcall.args = <<KwargsV({"caller"})>>
    /\ mret.err = "TooManyArguments"
    /\ mret.arg = "caller"

\* C13: a call with more positional arguments (the trailing keyword bundle
\* not counted) than declared parameters fails with TooManyArguments.
C13_TooManyPositional ==
    (Reached /\ Len(Positional) > Len(macro.arg_spec)) =>
        /\ mret.kind = "Err"
        /\ mret.err = "TooManyArguments"
        /\ mtrace.entered = 0

C13_Witness ==
    /\ Reached
    /\ macro.arg_spec = <<"a">>
    /\ mcall.args = <<IntV(1), IntV(2), KwargsV({})>>
    /\ mret.err = "TooManyArguments"

\* C14: a call with a method name fails with InvalidOperation for every
\* method name and argument list; the check comes before the identity check
\* and before anything is done with the arguments.
C14_MethodCall ==
    (mcall.called /\ mcall.method.some) =>
        /\ mret = Err("InvalidOperation", "cannot call methods on macro", "")
        /\ mtrace = NoTrace

C14_Witness ==
    /\ mcall.called
    /\ mcall.method = SomeOpt("name")
    /\ mcall.state.id # macro.state_id
    /\ Len(Positional) > Len(macro.arg_spec)
    /\ mret.err = "InvalidOperation"

\* C15: a macro that declares caller usage accepts a caller keyword and
\* hands its value (undefined when absent) to the evaluator as the caller;
\* a macro that does not declare it hands no caller value to the evaluator.
C15_Caller ==
    /\ (mcall.called /\ macro.caller_reference) =>
          ~(mret.detail = "unknown keyword argument {key}" /\ mret.arg = "caller")
    /\ (mcall.called /\ mtrace.entered = 1) =>
          mtrace.caller =
             IF macro.caller_reference
             THEN SomeOpt(IF "caller" \in DOMAIN Keywords
                          THEN Keywords["caller"] ELSE Undefined)
             ELSE NoneVal

C15_Witness ==
    /\ mcall.called
    /\ macro.caller_reference
    /\ mcall.args = <<IntV(1), KwargsV({"caller"})>>
    /\ mret.kind = "Ok"
    /\ mtrace.caller = SomeOpt(IntV(7))

\* C16: a successful call returns the rendered text as a safe string exactly
\* when the calling state's auto-escape mode is not None, and as a plain
\* string exactly when it is None; the text is the same either way.
C16_SafeOutput ==
    (mcall.called /\ mret.kind = "Ok") =>
        /\ mret.val.v = mtrace.rv
        /\ (mret.val.t = "safe_str") <=> (mcall.state.auto_escape # "None")
        /\ (mret.val.t = "str") <=> (mcall.state.auto_escape = "None")

C16_Witness ==
    /\ mcall.called
    /\ mcall.state.auto_escape = "Json"
    /\ mret = Ok(SafeStrV("<b>"))

\* C19: when one call breaks several rules the error is that of the first
\* broken step: method name, then state identity, then excess positional
\* arguments, then a duplicate (the leftmost), then an unknown keyword.
C19_Order ==
    mcall.called =>
        IF mcall.method.some
        THEN mret.err = "InvalidOperation"
             /\ mret.detail = "cannot call methods on macro"
        ELSE IF mcall.state.id # macro.state_id
        THEN mret.err = "InvalidOperation"
             /\ mret.detail = "cannot call this macro. template state went away."
        ELSE IF Len(Positional) > Len(macro.arg_spec)
        THEN mret.err = "TooManyArguments" /\ mret.detail = ""
        ELSE IF Dups # {}
        THEN mret.err = "TooManyArguments"
             /\ mret.detail = "duplicate argument {name}"
             /\ mret.arg = macro.arg_spec[Leftmost(Dups)]
        ELSE IF Unconsumed # {}
        THEN mret.err = "TooManyArguments"
             /\ mret.detail = "unknown keyword argument {key}"
        ELSE mret.err \notin {"InvalidOperation", "TooManyArguments"}

C19_Witness ==
    /\ mcall.called
    /\ mcall.method.some
    /\ mcall.state.id # macro.state_id
    /\ Len(Positional) > Len(macro.arg_spec)
    /\ "z" \in DOMAIN Keywords
    /\ mret.detail = "cannot call methods on macro"

C19_WitnessDuplicate ==
    /\ Reached
    /\ macro.arg_spec = <<"a", "b">>
    /\ mcall.args = <<IntV(1), IntV(2), KwargsV({"a", "b", "z"})>>
    /\ mret.detail = "duplicate argument {name}"
    /\ mret.arg = "a"

\* C20: only the final argument can be the keyword bundle, and only when it
\* is a keyword-argument object; a trailing object that is not one, and any
\* argument before the last, is counted and bound as a positional argument.
C20_Partition ==
    Reached =>
        /\ mtrace.args =
             (IF mcall.args # <<>> /\ mcall.args[Len(mcall.args)].t = "kwargs"
              THEN SubSeq(mcall.args, 1, Len(mcall.args) - 1) ELSE mcall.args)
        /\ mtrace.kwargs.some <=>
             (mcall.args # <<>> /\ mcall.args[Len(mcall.args)].t = "kwargs")
        /\ (\E i \in 1..Len(mcall.args) :
               /\ mcall.args[i].t \in {"object", "kwargs"}
               /\ (i < Len(mcall.args) \/ mcall.args[i].t = "object")
               /\ i > Len(macro.arg_spec)) => mret.err = "TooManyArguments"
        /\ mtrace.entered = 1 =>
             \A i \in 1..Len(mcall.args) :
                (i < Len(mcall.args) \/ mcall.args[i].t # "kwargs") =>
                    mtrace.arg_values[i] = mcall.args[i]

C20_Witness ==
    /\ Reached
    /\ macro.arg_spec = <<"a", "b">>
    /\ mcall.args = <<KwargsV({"a"}), ObjV>>
    /\ mret.kind = "Ok"
    /\ mtrace.arg_values = <<KwargsV({"a"}), ObjV>>

\* the call that ran last passes every check that call makes before the body
ChecksPass ==
    /\ Reached
    /\ Len(Positional) <= Len(macro.arg_spec)
    /\ Dups = {}
    /\ Unconsumed = {}

\* C21: within one macro call the evaluator is entered at most once, and only
\* after the method-name check, the identity check and all argument-binding
\* checks have passed; a call that fails one of them never enters the
\* evaluator, returns an error and no string, and produces no output.
C21_EvaluatorOnce ==
    mcall.called =>
        /\ mtrace.entered \in {0, 1}
        /\ mtrace.entered = 1 <=> ChecksPass
        /\ ~ChecksPass =>
              /\ ~mtrace.looked_up
              /\ mtrace.rv = ""
              /\ mtrace.arg_values = <<>>
              /\ mret.kind = "Err"
              /\ mret.val = Undefined

C21_Witness ==
    /\ mcall.called
    /\ ChecksPass
    /\ macro.arg_spec = <<"a", "b">>
    /\ mcall.args = <<IntV(1), KwargsV({"b"})>>
    /\ mtrace.entered = 1
    /\ mtrace.rv = "<b>"

C21_WitnessFailed ==
    /\ Reached
    /\ ~ChecksPass
    /\ mcall.args = <<IntV(1), KwargsV({"b", "z"})>>
    /\ mtrace.entered = 0
    /\ mtrace.rv = ""
    /\ mret.kind = "Err"

\* --------------------------------------------------- claims on the threads
Called == {t \in Threads : tpc[t] # "idle"}
Orders(S) ==
    {o \in [1..Cardinality(S) -> S] : \A i, j \in 1..Cardinality(S) : o[i] = o[j] => i = j}

\* the calls of order, one after the other, from stored
RECURSIVE seq_run(_, _, _)
seq_run(order, stored, i) ==
    IF i > Len(order) THEN [res |-> <<>>, stored |-> stored]
    ELSE LET rest == seq_run(order, changed_store(stored, targs[order[i]]), i + 1) IN
         [res |-> <<changed_differs(stored, targs[order[i]])>> \o rest.res,
          stored |-> rest.stored]

Serial(order) ==
    LET r == seq_run(order, stored0, 1) IN
    /\ \A i \in 1..Len(order) : tres[order[i]] = Ok(BoolV(r.res[i]))
    /\ last_changed_value = r.stored

Trues == {t \in Threads : tres[t] = Ok(BoolV(TRUE))}

\* C17: when several threads call loop.changed at once on one loop, each
\* call's compare-and-store is atomic: once the calls have returned, their
\* results and the stored tuple are those of the calls made one after the
\* other in some order; two calls with equal tuples on a loop with nothing
\* stored give one true and one false; and a thread holds the lock only
\* between its compare and its return, never before or after the call.
C17_Atomic ==
    /\ (\A t \in Called : tpc[t] = "done") => \E o \in Orders(Called) : Serial(o)
    /\ \A t, u \in Threads :
          (/\ t # u
           /\ Called = {t, u}
           /\ tpc[t] = "done" /\ tpc[u] = "done"
           /\ stored0 = NoneOpt
           /\ targs[t] = targs[u])
          => Cardinality(Trues) = 1
    /\ \A t \in Threads :
          /\ tpc[t] \in {"idle", "lock", "done"} => lock # t
          /\ tpc[t] \in {"compare", "store", "unlock"} => lock = t

C17_Witness ==
    /\ overlap
    /\ stored0 = NoneOpt
    /\ Called = {1, 2}
    /\ tpc[1] = "done" /\ tpc[2] = "done"
    /\ targs[1] = targs[2]
    /\ tres[1] = Ok(BoolV(FALSE))
    /\ tres[2] = Ok(BoolV(TRUE))

====
